---- MODULE Spec2Model ----
(***************************************************************************)
(* The screenshot baseline workflow of the post-submission script          *)
(* (src/commentUpvote.mjs, lines 229-511): compareScreenshots, the two     *)
(* baseline checkpoints of main ("initial", "final"), main's               *)
(* try/catch/finally and the completion handlers.                          *)
(*                                                                         *)
(* A file is a sequence of numbers: the encoding of an image is its width, *)
(* its height and then its pixels in row-major order.  A pixel is an       *)
(* opaque grey level 0..255 (r = g = b, alpha 255).  Decode stands for     *)
(* PNG.sync.read: it accepts exactly the well-formed encodings and throws  *)
(* on anything else (truncated data, trailing data).                       *)
(*                                                                         *)
(* similarity is a JavaScript double in the source; here it is the exact   *)
(* fraction simNum / simDen.                                               *)
(***************************************************************************)
EXTENDS Integers, Sequences, FiniteSets, TLC

\* ------------------------------------------------------------------ bounds

\* An image of the comparison inputs has at most MaxDark non-white pixels.
MaxDark == 2

\* Bytes one write() call of writeFile transfers.
ChunkSize == 4

\* Runs of the script that are started one after another.
MaxRuns == 3

\* ------------------------------------------------------- program constants

\* `similarity >= 90`
PassThreshold == 90

\* `{ threshold: 0.1 }`, in tenths
ThresholdTenths == 1

\* Grey levels of the images used as inputs.
Grey == [white |-> 255, near |-> 240, black |-> 0]

Keys == {"initial", "final"}
Procs == {1, 2}

\* ------------------------------------------------------------------ files

NoFile == [exists |-> FALSE, bytes |-> <<>>]

File(b) == [exists |-> TRUE, bytes |-> b]

Min(a, b) == IF a < b THEN a ELSE b

Max(a, b) == IF a > b THEN a ELSE b

\* The file the screenshot tool writes for an image.
Encode(w, h, px) == <<w, h>> \o px

\* w*h white pixels, those at the positions of dark set to colour c.
Pixels(n, dark, c) == [i \in 1..n |-> IF i \in dark THEN c ELSE Grey.white]

\* PNG.sync.read(buffer): the decoded image, or ok = FALSE when it throws.
Decode(b) ==
  IF Len(b) >= 2 /\ b[1] >= 1 /\ b[2] >= 1 /\ Len(b) = 2 + b[1] * b[2]
    THEN [ok |-> TRUE, width |-> b[1], height |-> b[2], data |-> SubSeq(b, 3, Len(b))]
    ELSE [ok |-> FALSE, width |-> 0, height |-> 0, data |-> <<>>]

\* ------------------------------------------------------------- pixelmatch

\* The colour test with the threshold taken as 1.0 instead of 0.1.
MismatchThresholdOne(v1, v2) == 5053 * (v1 - v2) * (v1 - v2) > 3521500 * 100

\* pixelmatch's colour test for two opaque grey pixels: the YIQ delta is
\* 0.5053 * (v1 - v2)^2 and the limit is 35215 * threshold^2.
Mismatch(v1, v2) ==
  5053 * (v1 - v2) * (v1 - v2) > 3521500 * ThresholdTenths * ThresholdTenths

\* pixelmatch counting the pixels that match instead of those that differ.
pixelmatchCountsEqual(img1, img2, width, height) ==
  IF Len(img1) # Len(img2) \/ Len(img1) # width * height
    THEN [threw |-> TRUE, count |-> 0]
    ELSE [threw |-> FALSE,
          count |-> Cardinality({i \in 1..Len(img1) : ~Mismatch(img1[i], img2[i])})]

\* pixelmatch(img1, img2, diff, width, height, {threshold}): throws when the
\* two buffers differ in length or do not hold width*height pixels, else
\* returns the number of mismatched pixels.  (Its anti-aliasing exclusion
\* needs a pixel with both a darker and a brighter neighbour; the images
\* here have white and one other level, so it never applies.)
pixelmatch(img1, img2, width, height) ==
  IF Len(img1) # Len(img2) \/ Len(img1) # width * height
    THEN [threw |-> TRUE, count |-> 0]
    ELSE [threw |-> FALSE,
          count |-> Cardinality({i \in 1..Len(img1) : Mismatch(img1[i], img2[i])})]

\* ----------------------------------------------------- compareScreenshots

CompareError(kind) ==
  [ok |-> FALSE, error |-> kind, mismatchedPixels |-> 0, totalPixels |-> 0,
   simNum |-> 0, simDen |-> 1, passed |-> FALSE]

\* The threshold test written `similarity > 90`.
PassesStrict(simNum, simDen) == simNum > PassThreshold * simDen

\* `similarity >= 90`
Passes(simNum, simDen) == simNum >= PassThreshold * simDen

\* The percentage taken of the image's width instead of its pixel count.
SimilarityPerRow(mismatchedPixels, width, height) ==
  <<100 * width - mismatchedPixels * 100, width>>

\* The mismatch percentage returned where the similarity is meant.
SimilarityIsMismatch(mismatchedPixels, width, height) ==
  <<mismatchedPixels * 100, width * height>>

\* similarity = 100 - (mismatchedPixels / (width * height)) * 100, as the
\* fraction <<numerator, denominator>>.
Similarity(mismatchedPixels, width, height) ==
  <<100 * (width * height) - mismatchedPixels * 100, width * height>>

\* compareScreenshots(original, current) on the two files' contents: width and
\* height are the ORIGINAL's; the current image's own width and height are
\* never read.
compareScreenshots(original, current) ==
  IF ~original.exists \/ ~current.exists THEN CompareError("read")
  ELSE
    LET originalPng == Decode(original.bytes)
        currentPng == Decode(current.bytes)
    IN IF ~originalPng.ok \/ ~currentPng.ok THEN CompareError("decode")
       ELSE
         LET width == originalPng.width
             height == originalPng.height
             pm == pixelmatch(originalPng.data, currentPng.data, width, height)
         IN IF pm.threw THEN CompareError("size")
            ELSE
              LET similarity == Similarity(pm.count, width, height)
              IN [ok |-> TRUE, error |-> "none",
                  mismatchedPixels |-> pm.count,
                  totalPixels |-> width * height,
                  simNum |-> similarity[1], simDen |-> similarity[2],
                  passed |-> Passes(similarity[1], similarity[2])]

\* ----------------------------------------------------------------- inputs

Dims == {<<2, 2>>, <<2, 3>>, <<3, 2>>, <<2, 5>>}

DarkSets(n) == {d \in SUBSET (1..n) : Cardinality(d) <= MaxDark}

\* The images of one size: up to MaxDark pixels black, or near-white.
ImagesOf(d) ==
  {File(Encode(d[1], d[2], Pixels(d[1] * d[2], dark, c))) :
     dark \in DarkSets(d[1] * d[2]), c \in {Grey.black, Grey.near}}

CorruptFiles == {File(<<2, 2, 255>>), File(<<>>)}

\* The files compareScreenshots is tried on: the images of every size of
\* Dims, two files that are no image, and a missing file.
CompareInputs == UNION {ImagesOf(d) : d \in Dims} \cup CorruptFiles \cup {NoFile}

\* What `import -window root` can leave in a screenshot file during a run of
\* main: a 2x2, a 2x3 or a 3x2 capture, or a file that is no image.
ShotFiles ==
  {File(Encode(2, 2, Pixels(4, {}, Grey.white))),
   File(Encode(2, 2, Pixels(4, {1}, Grey.black))),
   File(Encode(2, 3, Pixels(6, {}, Grey.white))),
   File(Encode(3, 2, Pixels(6, {}, Grey.white))),
   File(<<2, 2, 255>>)}

\* ------------------------------------------------------------------ state

VARIABLES
  fs,              \* screenshots/baseline_<key>.png: key -> file
  pc,              \* where each run of the script stands
  key,             \* the checkpoint a run is at
  shot,            \* the screenshot file a run took for its checkpoint
  baselineExists,  \* baselineInitialExists / baselineFinalExists
  isSimilar,       \* isSimilarInitial / isSimilarFinal: "none", "true", "false"
  wbuf,            \* the buffer writeFile is writing
  wpos,            \* writeFile's file position
  saved,           \* what a run logged as saved as baseline: key -> file
  lastWriter,      \* per key, the run whose writeFile completed last (0: none)
  result,          \* the value main returns
  shots,           \* screenshots a run has taken
  keysSent,        \* whether a run has sent its Tab/text/Enter keystrokes
  closed,          \* times a run entered its finally block
  output,          \* what the completion handlers printed
  runsLeft,        \* runs of the script still to be started
  orig, cur, out   \* a single call of compareScreenshots: inputs and result

vars ==
  <<fs, pc, key, shot, baselineExists, isSimilar, wbuf, wpos, saved, lastWriter,
    result, shots, keysSent, closed, output, runsLeft, orig, cur, out>>

cmpVars == <<orig, cur, out>>

\* What only StartRun changes, and the compareScreenshots call.
rest == <<runsLeft, orig, cur, out>>

runVars ==
  <<fs, pc, key, shot, baselineExists, isSimilar, wbuf, wpos, saved, lastWriter,
    result, shots, keysSent, closed, output, runsLeft>>

NoResult == [success |-> FALSE, message |-> "none", paths |-> 0]

\* `success: true, ... screenshotPaths: [initial, final]`
Success == [success |-> TRUE, message |-> "Post submitted successfully.", paths |-> 2]

\* `success: false, message: 'Login required...', screenshotPaths: []`
LoginRequired == [success |-> FALSE, message |-> "Login required.", paths |-> 0]

\* The catch block's result still listing the screenshots taken so far.
FailureWithPaths ==
  [success |-> FALSE, message |-> "An error occurred during automation.", paths |-> 1]

\* `success: false, message: 'An error occurred during automation.'`
Failure == [success |-> FALSE, message |-> "An error occurred during automation.", paths |-> 0]

\* `success: false, message: 'Unhandled error: ...'`
Unhandled == [success |-> FALSE, message |-> "Unhandled error", paths |-> 0]

Unset == CompareError("unset")

NoKeys == [k \in Keys |-> NoFile]

InitRun(runs) ==
  /\ fs = [k \in Keys |-> NoFile]
  /\ runsLeft = runs
  /\ pc = [p \in Procs |-> "idle"]
  /\ key = [p \in Procs |-> "initial"]
  /\ shot = [p \in Procs |-> NoFile]
  /\ baselineExists = [p \in Procs |-> FALSE]
  /\ isSimilar = [p \in Procs |-> [k \in Keys |-> "none"]]
  /\ wbuf = [p \in Procs |-> NoFile]
  /\ wpos = [p \in Procs |-> 0]
  /\ saved = [p \in Procs |-> NoKeys]
  /\ lastWriter = [k \in Keys |-> 0]
  /\ result = [p \in Procs |-> NoResult]
  /\ shots = [p \in Procs |-> 0]
  /\ keysSent = [p \in Procs |-> FALSE]
  /\ closed = [p \in Procs |-> 0]
  /\ output = [p \in Procs |-> NoResult]

\* One run of the script at a time, in an empty screenshots directory.
Init ==
  /\ InitRun([p \in Procs |-> IF p = 1 THEN MaxRuns ELSE 0])
  /\ orig = NoFile /\ cur = NoFile /\ out = Unset

\* Two runs of the script side by side.
InitConc ==
  /\ InitRun([p \in Procs |-> 1])
  /\ orig = NoFile /\ cur = NoFile /\ out = Unset

\* No run of the script: one call of compareScreenshots on any two files.
InitCmp ==
  /\ InitRun([p \in Procs |-> 0])
  /\ orig \in CompareInputs /\ cur \in CompareInputs /\ out = Unset

\* ------------------------------------------------------------ file system

\* A check of the wrong path: no baseline is ever found.
existsSyncNever(store, k) == FALSE

\* fs.existsSync('screenshots/baseline_<key>.png')
existsSync(store, k) == store[k].exists

\* One write() of chunk at file position pos: bytes before pos stay (zeros
\* where the file was shorter), bytes after the chunk stay.
pwrite(bytes, chunk, pos) ==
  [i \in 1..Max(Len(bytes), pos + Len(chunk)) |->
     IF i > pos /\ i <= pos + Len(chunk) THEN chunk[i - pos]
     ELSE IF i <= Len(bytes) THEN bytes[i] ELSE 0]

\* writeFile that never advances its view of the data between two writes.
NextChunkRestart(data, pos) == SubSeq(data, 1, Min(ChunkSize, Len(data) - pos))

\* The part of data the next write() of writeFile transfers from position pos.
NextChunk(data, pos) == SubSeq(data, pos + 1, pos + Min(ChunkSize, Len(data) - pos))

\* ------------------------------------------------------------------- main

\* Where main goes on after a checkpoint: the keystrokes after "initial",
\* the successful return after "final".
AfterCheckpoint(k) == IF k = "initial" THEN "keys" ELSE "ret"

\* A checkpoint that goes on whatever compareScreenshots returned.
CheckpointIgnoresVerdict(res) == res.ok

\* `if (!isSimilar) throw new Error(...)`, and an error thrown inside
\* compareScreenshots propagates.
CheckpointGoesOn(res) == res.ok /\ res.passed

\* The steps of main's try block whose awaited call can reject.
Throwing == {"open", "login", "shot", "compare", "read", "wopen", "write", "keys"}

\* Control leaves the try block: its block-scoped constants are gone.
LeaveTry(p) ==
  /\ key' = [key EXCEPT ![p] = "initial"]
  /\ shot' = [shot EXCEPT ![p] = NoFile]
  /\ baselineExists' = [baselineExists EXCEPT ![p] = FALSE]
  /\ wbuf' = [wbuf EXCEPT ![p] = NoFile]
  /\ wpos' = [wpos EXCEPT ![p] = 0]

\* A run of the script starts: `main()`.
StartRun(p) ==
  /\ pc[p] \in {"idle", "done"}
  /\ runsLeft[p] > 0
  /\ pc' = [pc EXCEPT ![p] = "open"]
  /\ key' = [key EXCEPT ![p] = "initial"]
  /\ shot' = [shot EXCEPT ![p] = NoFile]
  /\ baselineExists' = [baselineExists EXCEPT ![p] = FALSE]
  /\ isSimilar' = [isSimilar EXCEPT ![p] = [k \in Keys |-> "none"]]
  /\ wbuf' = [wbuf EXCEPT ![p] = NoFile]
  /\ wpos' = [wpos EXCEPT ![p] = 0]
  /\ saved' = [saved EXCEPT ![p] = NoKeys]
  /\ result' = [result EXCEPT ![p] = NoResult]
  /\ shots' = [shots EXCEPT ![p] = 0]
  /\ keysSent' = [keysSent EXCEPT ![p] = FALSE]
  /\ closed' = [closed EXCEPT ![p] = 0]
  /\ output' = [output EXCEPT ![p] = NoResult]
  /\ runsLeft' = [runsLeft EXCEPT ![p] = @ - 1]
  /\ UNCHANGED <<fs, lastWriter, cmpVars>>

\* mkdir, openChrome and the wait before the login check.
OpenChrome(p) ==
  /\ pc[p] = "open"
  /\ pc' = [pc EXCEPT ![p] = "login"]
  /\ UNCHANGED <<fs, key, shot, baselineExists, isSimilar, wbuf, wpos, saved,
                 lastWriter, result, shots, keysSent, closed, output, rest>>

\* The login check placed before the try block: its early return skips
\* the finally block.
CheckLoginOutsideTry(p) ==
  /\ pc[p] = "login"
  /\ \E loginRequired \in BOOLEAN :
       IF loginRequired
         THEN /\ result' = [result EXCEPT ![p] = LoginRequired]
              /\ pc' = [pc EXCEPT ![p] = "resolved"]
         ELSE /\ result' = result
              /\ pc' = [pc EXCEPT ![p] = "shot"]
  /\ UNCHANGED <<fs, key, shot, baselineExists, isSimilar, wbuf, wpos, saved,
                 lastWriter, shots, keysSent, closed, output, rest>>

\* The initial screenshot taken before the login check, as in the upvote
\* script.
CheckLoginAfterShot(p) ==
  /\ pc[p] = "login"
  /\ shots' = [shots EXCEPT ![p] = 1]
  /\ \E loginRequired \in BOOLEAN :
       IF loginRequired
         THEN /\ result' = [result EXCEPT ![p] = LoginRequired]
              /\ pc' = [pc EXCEPT ![p] = "finally"]
         ELSE /\ result' = result
              /\ pc' = [pc EXCEPT ![p] = "shot"]
  /\ UNCHANGED <<fs, key, shot, baselineExists, isSimilar, wbuf, wpos, saved,
                 lastWriter, keysSent, closed, output, rest>>

\* checkForLoginText and the early return when login is required.
CheckLogin(p) ==
  /\ pc[p] = "login"
  /\ \E loginRequired \in BOOLEAN :
       IF loginRequired
         THEN /\ result' = [result EXCEPT ![p] = LoginRequired]
              /\ pc' = [pc EXCEPT ![p] = "finally"]
         ELSE /\ result' = result
              /\ pc' = [pc EXCEPT ![p] = "shot"]
  /\ UNCHANGED <<fs, key, shot, baselineExists, isSimilar, wbuf, wpos, saved,
                 lastWriter, shots, keysSent, closed, output, rest>>

\* takeScreenshot(screenshotNameInitial / screenshotNameFinal)
TakeScreenshot(p) ==
  /\ pc[p] = "shot"
  /\ \E f \in ShotFiles : shot' = [shot EXCEPT ![p] = f]
  /\ shots' = [shots EXCEPT ![p] = @ + 1]
  /\ pc' = [pc EXCEPT ![p] = "exists"]
  /\ UNCHANGED <<fs, key, baselineExists, isSimilar, wbuf, wpos, saved,
                 lastWriter, result, keysSent, closed, output, rest>>

\* An existence check that opens the file for appending, creating it.
HasBaselineTouches(p) ==
  /\ pc[p] = "exists"
  /\ baselineExists' = [baselineExists EXCEPT ![p] = existsSync(fs, key[p])]
  /\ pc' = [pc EXCEPT ![p] = IF existsSync(fs, key[p]) THEN "compare" ELSE "read"]
  /\ fs' = [fs EXCEPT ![key[p]] = IF @.exists THEN @ ELSE File(<<>>)]
  /\ UNCHANGED <<key, shot, isSimilar, wbuf, wpos, saved, lastWriter,
                 result, shots, keysSent, closed, output, rest>>

\* `const baselineExists = fs.existsSync(...)` and the `if` on it.
HasBaseline(p) ==
  /\ pc[p] = "exists"
  /\ baselineExists' = [baselineExists EXCEPT ![p] = existsSync(fs, key[p])]
  /\ pc' = [pc EXCEPT ![p] = IF existsSync(fs, key[p]) THEN "compare" ELSE "read"]
  /\ UNCHANGED <<fs, key, shot, isSimilar, wbuf, wpos, saved, lastWriter,
                 result, shots, keysSent, closed, output, rest>>

\* A compare branch that also stores the screenshot it accepted as the new
\* baseline.
CompareRefreshes(p) ==
  /\ pc[p] = "compare"
  /\ LET res == compareScreenshots(fs[key[p]], shot[p])
     IN /\ isSimilar' = [isSimilar EXCEPT ![p][key[p]] =
                           IF ~res.ok THEN "none"
                           ELSE IF res.passed THEN "true" ELSE "false"]
        /\ pc' = [pc EXCEPT ![p] =
                    IF CheckpointGoesOn(res) THEN AfterCheckpoint(key[p]) ELSE "catch"]
        /\ fs' = IF CheckpointGoesOn(res) THEN [fs EXCEPT ![key[p]] = shot[p]] ELSE fs
        /\ IF CheckpointGoesOn(res)
             THEN UNCHANGED <<key, shot, baselineExists, wbuf, wpos>>
             ELSE LeaveTry(p)
  /\ UNCHANGED <<saved, lastWriter, result, shots, keysSent, closed, output, rest>>

\* `isSimilar = await compareScreenshots(baseline, screenshot)` and the throw
\* when it is false.
Compare(p) ==
  /\ pc[p] = "compare"
  /\ LET res == compareScreenshots(fs[key[p]], shot[p])
     IN /\ isSimilar' = [isSimilar EXCEPT ![p][key[p]] =
                           IF ~res.ok THEN "none"
                           ELSE IF res.passed THEN "true" ELSE "false"]
        /\ pc' = [pc EXCEPT ![p] =
                    IF CheckpointGoesOn(res) THEN AfterCheckpoint(key[p]) ELSE "catch"]
  /\ IF CheckpointGoesOn(compareScreenshots(fs[key[p]], shot[p]))
       THEN UNCHANGED <<key, shot, baselineExists, wbuf, wpos>>
       ELSE LeaveTry(p)
  /\ UNCHANGED <<fs, saved, lastWriter, result, shots, keysSent, closed, output, rest>>

\* `await readFile(screenshot)`, the argument of writeFile.
ReadShot(p) ==
  /\ pc[p] = "read"
  /\ wbuf' = [wbuf EXCEPT ![p] = shot[p]]
  /\ pc' = [pc EXCEPT ![p] = "wopen"]
  /\ UNCHANGED <<fs, key, shot, baselineExists, isSimilar, wpos, saved,
                 lastWriter, result, shots, keysSent, closed, output, rest>>

\* The baseline is saved: writeFile's last write() has returned.
Saved(p) ==
  /\ saved' = [saved EXCEPT ![p][key[p]] = wbuf[p]]
  /\ lastWriter' = [lastWriter EXCEPT ![key[p]] = p]
  /\ pc' = [pc EXCEPT ![p] = AfterCheckpoint(key[p])]

\* writeFile opens the baseline file: created or truncated.
OpenWrite(p) ==
  /\ pc[p] = "wopen"
  /\ fs' = [fs EXCEPT ![key[p]] = File(<<>>)]
  /\ wpos' = [wpos EXCEPT ![p] = 0]
  /\ IF Len(wbuf[p].bytes) = 0
       THEN Saved(p)
       ELSE /\ pc' = [pc EXCEPT ![p] = "write"]
            /\ UNCHANGED <<saved, lastWriter>>
  /\ UNCHANGED <<key, shot, baselineExists, isSimilar, wbuf, result, shots,
                 keysSent, closed, output, rest>>

\* writeFile writes its next chunk at its own file position.
WriteChunk(p) ==
  /\ pc[p] = "write"
  /\ LET chunk == NextChunk(wbuf[p].bytes, wpos[p])
     IN /\ fs' = [fs EXCEPT ![key[p]] = File(pwrite(fs[key[p]].bytes, chunk, wpos[p]))]
        /\ wpos' = [wpos EXCEPT ![p] = @ + Len(chunk)]
        /\ IF wpos[p] + Len(chunk) >= Len(wbuf[p].bytes)
             THEN Saved(p)
             ELSE UNCHANGED <<pc, saved, lastWriter>>
  /\ UNCHANGED <<key, shot, baselineExists, isSimilar, wbuf, result, shots,
                 keysSent, closed, output, rest>>

\* The Tab, text and Enter keystrokes between the two checkpoints.
Keystrokes(p) ==
  /\ pc[p] = "keys"
  /\ keysSent' = [keysSent EXCEPT ![p] = TRUE]
  /\ key' = [key EXCEPT ![p] = "final"]
  /\ pc' = [pc EXCEPT ![p] = "shot"]
  /\ UNCHANGED <<fs, shot, baselineExists, isSimilar, wbuf, wpos, saved,
                 lastWriter, result, shots, closed, output, rest>>

\* `return JSON.stringify({ success: true, ... })`
Return(p) ==
  /\ pc[p] = "ret"
  /\ result' = [result EXCEPT ![p] = Success]
  /\ pc' = [pc EXCEPT ![p] = "finally"]
  /\ LeaveTry(p)
  /\ UNCHANGED <<fs, isSimilar, saved, lastWriter, shots, keysSent, closed, output, rest>>

\* An awaited call of the try block rejects (a command exits non-zero, a file
\* cannot be read or written): control goes to the catch block.
Throw(p) ==
  /\ pc[p] \in Throwing
  /\ pc' = [pc EXCEPT ![p] = "catch"]
  /\ LeaveTry(p)
  /\ UNCHANGED <<fs, isSimilar, saved, lastWriter, result, shots, keysSent, closed, output, rest>>

\* A catch block that removes the baselines its run saved.
CatchRollsBack(p) ==
  /\ pc[p] = "catch"
  /\ result' = [result EXCEPT ![p] = Failure]
  /\ pc' = [pc EXCEPT ![p] = "finally"]
  /\ fs' = [k \in Keys |-> IF saved[p][k].exists THEN NoFile ELSE fs[k]]
  /\ UNCHANGED <<key, shot, baselineExists, isSimilar, wbuf, wpos, saved,
                 lastWriter, shots, keysSent, closed, output, rest>>

\* `catch (error) { ... return JSON.stringify({ success: false, ... }) }`
Catch(p) ==
  /\ pc[p] = "catch"
  /\ result' = [result EXCEPT ![p] = Failure]
  /\ pc' = [pc EXCEPT ![p] = "finally"]
  /\ UNCHANGED <<fs, key, shot, baselineExists, isSimilar, wbuf, wpos, saved,
                 lastWriter, shots, keysSent, closed, output, rest>>

\* The finally block closes the browser and main's promise resolves with
\* the result.
CloseBrowser(p) ==
  /\ pc[p] = "finally"
  /\ closed' = [closed EXCEPT ![p] = @ + 1]
  /\ pc' = [pc EXCEPT ![p] = "resolved"]
  /\ UNCHANGED <<fs, key, shot, baselineExists, isSimilar, wbuf, wpos, saved,
                 lastWriter, result, shots, keysSent, output, rest>>

\* A command of the finally block rejects: main's promise rejects.
CloseFails(p) ==
  /\ pc[p] = "finally"
  /\ closed' = [closed EXCEPT ![p] = @ + 1]
  /\ pc' = [pc EXCEPT ![p] = "rejected"]
  /\ UNCHANGED <<fs, key, shot, baselineExists, isSimilar, wbuf, wpos, saved,
                 lastWriter, result, shots, keysSent, output, rest>>

\* `.then(result => { ...; console.log(result) })`
Then(p) ==
  /\ pc[p] = "resolved"
  /\ output' = [output EXCEPT ![p] = result[p]]
  /\ pc' = [pc EXCEPT ![p] = "done"]
  /\ UNCHANGED <<fs, key, shot, baselineExists, isSimilar, wbuf, wpos, saved,
                 lastWriter, result, shots, keysSent, closed, rest>>

\* `.catch(error => { ...; console.error(...) })`
CatchHandler(p) ==
  /\ pc[p] = "rejected"
  /\ output' = [output EXCEPT ![p] = Unhandled]
  /\ pc' = [pc EXCEPT ![p] = "done"]
  /\ UNCHANGED <<fs, key, shot, baselineExists, isSimilar, wbuf, wpos, saved,
                 lastWriter, result, shots, keysSent, closed, rest>>

Next ==
  \E p \in Procs :
    \/ StartRun(p)
    \/ OpenChrome(p)
    \/ CheckLogin(p)
    \/ TakeScreenshot(p)
    \/ HasBaseline(p)
    \/ Compare(p)
    \/ ReadShot(p)
    \/ OpenWrite(p)
    \/ WriteChunk(p)
    \/ Keystrokes(p)
    \/ Return(p)
    \/ Throw(p)
    \/ Catch(p)
    \/ CloseBrowser(p)
    \/ CloseFails(p)
    \/ Then(p)
    \/ CatchHandler(p)

\* Runs of the script one after another.
Spec == Init /\ [][Next]_vars

\* Two runs of the script at the same time.
SpecConc == InitConc /\ [][Next]_vars

\* Runs one after another in which every awaited command settles: a step
\* that can be taken is eventually taken.
SpecFair == Init /\ [][Next]_vars /\ WF_vars(Next)

\* One call of compareScreenshots(orig, cur).
CompareCall ==
  /\ out = Unset
  /\ out' = compareScreenshots(orig, cur)
  /\ UNCHANGED <<orig, cur, runVars>>

NextCmp == CompareCall

SpecCmp == InitCmp /\ [][NextCmp]_vars

\* ----------------------------------------------------------------- claims

\* Both files are images and have the same width and the same height.
SameDims(a, b) ==
  /\ a.exists /\ b.exists
  /\ Decode(a.bytes).ok /\ Decode(b.bytes).ok
  /\ Decode(a.bytes).width = Decode(b.bytes).width
  /\ Decode(a.bytes).height = Decode(b.bytes).height

\* Both files are images and differ in width or in height.
DiffDims(a, b) ==
  /\ a.exists /\ b.exists
  /\ Decode(a.bytes).ok /\ Decode(b.bytes).ok
  /\ \/ Decode(a.bytes).width # Decode(b.bytes).width
     \/ Decode(a.bytes).height # Decode(b.bytes).height

\* C1: for a baseline and a candidate of the same width and height,
\* compareScreenshots computes similarity = 100 * (1 - mismatched / total)
\* with total = width * height, and passes exactly when similarity >= 90,
\* that is when at most a tenth of the pixels mismatch.
C1_SimilarityAndThreshold ==
  (out # Unset /\ SameDims(orig, cur)) =>
    /\ out.ok
    /\ out.totalPixels = Decode(orig.bytes).width * Decode(orig.bytes).height
    /\ out.mismatchedPixels <= out.totalPixels
    /\ out.simNum * out.totalPixels
         = 100 * (out.totalPixels - out.mismatchedPixels) * out.simDen
    /\ out.passed <=> (10 * out.mismatchedPixels <= out.totalPixels)

\* A comparison whose similarity is exactly 90 has passed.
C1_Witness ==
  /\ out # Unset /\ SameDims(orig, cur)
  /\ 10 * out.mismatchedPixels = out.totalPixels
  /\ out.passed

\* C2: a candidate whose width or height differs from the baseline's makes
\* compareScreenshots fail; it never returns a verdict.
C2_DimensionMismatchFails ==
  (out # Unset /\ DiffDims(orig, cur)) => (~out.ok /\ out.error = "size")

\* C6: an image compared against an identical copy of itself has no
\* mismatched pixel, similarity exactly 100, and passes.
C6_IdenticalIsFullySimilar ==
  (out # Unset /\ orig = cur /\ SameDims(orig, cur)) =>
    /\ out.ok
    /\ out.mismatchedPixels = 0
    /\ out.simNum = 100 * out.simDen
    /\ out.passed

\* The 2x2 all-white image compared against itself.
C6_Witness ==
  /\ out # Unset /\ out.ok /\ out.passed
  /\ orig = File(Encode(2, 2, Pixels(4, {}, Grey.white)))
  /\ cur = orig

\* The steps of the establish branch of a checkpoint.
Establishing == {"read", "wopen", "write"}

\* C3: at each checkpoint main takes the branch existsSync decides: with no
\* baseline it stores the screenshot it took as the baseline, compares
\* nothing and goes on; with a baseline it compares against it, leaves the
\* baseline files alone, and goes on exactly when the comparison passed
\* (a false verdict, or an error, takes the run to the catch block).
C3_TwoBranches ==
  [][\A p \in Procs :
       /\ (pc[p] = "exists" /\ pc'[p] # "exists") =>
            pc'[p] = IF fs[key[p]].exists THEN "compare" ELSE "read"
       /\ (pc[p] = "compare" /\ pc'[p] # "compare") =>
            LET res == compareScreenshots(fs[key[p]], shot[p])
            IN /\ fs' = fs
               /\ pc'[p] \in {AfterCheckpoint(key[p]), "catch"}
               /\ pc'[p] = AfterCheckpoint(key[p]) =>
                    (res.ok /\ res.passed /\ isSimilar'[p][key[p]] = "true")
               /\ (res.ok /\ ~res.passed) => pc'[p] = "catch"
       /\ pc[p] \in Establishing =>
            /\ isSimilar[p][key[p]] = "none"
            /\ isSimilar'[p][key[p]] = "none"
            /\ pc'[p] \in Establishing \cup {AfterCheckpoint(key[p]), "catch"}
            /\ pc'[p] = AfterCheckpoint(key[p]) => fs'[key[p]] = shot[p]
    ]_vars

\* A run that compared its initial screenshot and passed, and stored its
\* final screenshot as the baseline.
C3_Witness ==
  /\ pc[1] = "finally"
  /\ isSimilar[1]["initial"] = "true"
  /\ saved[1]["final"].exists
  /\ isSimilar[1]["final"] = "none"

\* The run of p has ended and reported a failure.
EndedInFailure(p) == pc[p] = "done" /\ ~output[p].success

\* C4 as stated: a run that ends in failure leaves no baseline behind that
\* it created.
C4_FailedRunLeavesNoBaseline ==
  \A p \in Procs : \A k \in Keys :
    (EndedInFailure(p) /\ saved[p][k].exists) => ~fs[k].exists

\* C4 as amended: the baseline of a key is stored by the run that reaches
\* the key's checkpoint and finds none, right at that checkpoint; from then
\* on it is that run's screenshot, whatever the run does afterwards and
\* however it ends.
C4_BaselineStoredAtCheckpoint ==
  \A p \in Procs : \A k \in Keys :
    saved[p][k].exists => (fs[k].exists /\ fs[k] = saved[p][k])

\* A run that stored the initial baseline and then ended in failure.
C4_Witness ==
  /\ EndedInFailure(1)
  /\ saved[1]["initial"].exists
  /\ fs["initial"] = saved[1]["initial"]

\* A writeFile on the baseline of k is under way.
Writing(k) == \E p \in Procs : pc[p] = "write" /\ key[p] = k

\* C5: once the baseline of a key exists, no step of any later run removes
\* it or changes its content.
C5_BaselineNeverChanges ==
  [][\A k \in Keys : (fs[k].exists /\ ~Writing(k)) => fs'[k] = fs[k]]_vars

\* The last run has ended in failure with both baselines in place.
C5_Witness ==
  /\ runsLeft[1] = 0
  /\ EndedInFailure(1)
  /\ lastWriter["initial"] = 1 /\ fs["initial"].exists
  /\ lastWriter["final"] = 1 /\ fs["final"].exists
  /\ ~saved[1]["initial"].exists /\ ~saved[1]["final"].exists

\* The run of p has just stored its screenshot as the baseline of key[p].
JustEstablished(p) == pc[p] \in {"keys", "ret"} /\ ~baselineExists[p]

\* C7: right after a run has stored an image as the baseline of a key,
\* comparing that image against the stored baseline gives similarity
\* exactly 100.
C7_EstablishThenCompare ==
  \A p \in Procs :
    (JustEstablished(p) /\ Decode(shot[p].bytes).ok) =>
      LET res == compareScreenshots(fs[key[p]], shot[p])
      IN res.ok /\ res.simNum = 100 * res.simDen

\* A decodable screenshot, longer than one chunk, has just been stored as
\* the baseline.
C7_Witness ==
  /\ JustEstablished(1)
  /\ saved[1][key[1]].exists
  /\ Decode(shot[1].bytes).ok
  /\ Len(shot[1].bytes) > ChunkSize

\* C8: a run goes on past a comparison only if both files were images of the
\* same width and height: unreadable or corrupt data and mismatched
\* dimensions never count as a pass.
C8_FailuresAreReported ==
  \A p \in Procs :
    (pc[p] \in {"keys", "ret"} /\ baselineExists[p]) =>
      SameDims(fs[key[p]], shot[p])

\* C9: when two runs have both stored a baseline for the same key, the
\* baseline file is exactly the image of the run whose write finished last.
C9_LastWriterWins ==
  \A k \in Keys :
    (\A p \in Procs : saved[p][k].exists) =>
      (fs[k].exists /\ fs[k] = saved[lastWriter[k]][k])

\* C10: once a run has stored the baseline of a key, the file stays, every
\* later existsSync for the key is true, and the run that asks takes the
\* compare branch.
C10_BaselineFoundAfterEstablish ==
  [][\A k \in Keys :
       lastWriter[k] # 0 =>
         /\ fs[k].exists /\ fs'[k].exists
         /\ \A p \in Procs :
              (pc[p] = "exists" /\ key[p] = k /\ pc'[p] # "exists") =>
                (baselineExists'[p] /\ pc'[p] = "compare")
    ]_vars

\* A later run is in the compare branch for a key an earlier run stored.
C10_Witness ==
  /\ lastWriter["initial"] = 1
  /\ ~saved[1]["initial"].exists
  /\ pc[1] = "compare" /\ key[1] = "initial" /\ baselineExists[1]

\* Candidates of the size of the baseline a with 0, 1, ... up to all of
\* their pixels black.
Ramp(a) ==
  LET n == Decode(a.bytes).width * Decode(a.bytes).height
  IN {File(Encode(Decode(a.bytes).width, Decode(a.bytes).height,
                  Pixels(n, 1..m, Grey.black))) : m \in 0..n}

\* C11: of two candidates of the baseline's size, the one with at least as
\* many mismatched pixels has a similarity that is at most the other's.
C11_Monotone ==
  (out # Unset /\ SameDims(orig, cur)) =>
    \A c2 \in Ramp(orig) :
      LET o2 == compareScreenshots(orig, c2)
      IN /\ out.ok /\ o2.ok
         /\ out.mismatchedPixels >= o2.mismatchedPixels =>
              out.simNum * o2.simDen <= o2.simNum * out.simDen
         /\ o2.mismatchedPixels >= out.mismatchedPixels =>
              o2.simNum * out.simDen <= out.simNum * o2.simDen

\* A candidate with more mismatched pixels than another one, and a strictly
\* smaller similarity.
C11_Witness ==
  /\ out # Unset /\ SameDims(orig, cur) /\ out.ok
  /\ \E c2 \in Ramp(orig) :
       LET o2 == compareScreenshots(orig, c2)
       IN /\ o2.ok
          /\ out.mismatchedPixels > o2.mismatchedPixels
          /\ o2.mismatchedPixels > 0
          /\ out.simNum * o2.simDen < o2.simNum * out.simDen

White2x2 == File(Encode(2, 2, Pixels(4, {}, Grey.white)))

\* The 2x2 images with exactly one pixel black.
OneBlack2x2 == {File(Encode(2, 2, Pixels(4, {i}, Grey.black))) : i \in 1..4}

\* C12: against the 2x2 all-white baseline, a candidate with exactly one of
\* its four pixels black has 1 mismatched pixel, similarity 75, and fails.
C12_OneBlackPixel ==
  (out # Unset /\ orig = White2x2 /\ cur \in OneBlack2x2) =>
    /\ out.ok
    /\ out.mismatchedPixels = 1
    /\ out.simNum = 75 * out.simDen
    /\ ~out.passed

\* The comparison of the scenario has returned.
C12_Witness ==
  /\ out # Unset /\ out.ok /\ ~out.passed
  /\ orig = White2x2
  /\ cur = File(Encode(2, 2, Pixels(4, {3}, Grey.black)))

\* C13: the existsSync step of a checkpoint changes no baseline file,
\* whether it finds the baseline or not.
C13_HasBaselineNoSideEffect ==
  [][\A p \in Procs :
       (pc[p] = "exists" /\ pc'[p] # "exists") =>
         /\ fs' = fs
         /\ baselineExists'[p] = fs[key[p]].exists
    ]_vars

\* existsSync has answered false for "final" while the baseline of
\* "initial" is in place.
C13_Witness ==
  /\ pc[1] = "read" /\ key[1] = "final" /\ ~baselineExists[1]
  /\ fs["initial"].exists /\ ~fs["final"].exists

\* C14: a result of compareScreenshots has 0 <= mismatched <= total,
\* total > 0 and 0 <= similarity <= 100, and the call leaves the baseline
\* files as they were (here: none).
C14_ResultRanges ==
  out # Unset =>
    /\ fs = NoKeys
    /\ out.ok =>
         /\ 0 <= out.mismatchedPixels
         /\ out.mismatchedPixels <= out.totalPixels
         /\ out.totalPixels > 0
         /\ out.simDen > 0
         /\ 0 <= out.simNum
         /\ out.simNum <= 100 * out.simDen

\* A result with every pixel mismatched: similarity 0.
C14_Witness ==
  /\ out # Unset /\ out.ok
  /\ out.mismatchedPixels = out.totalPixels
  /\ out.simNum = 0

\* main has returned or its promise has settled.
Settled == {"resolved", "rejected", "done"}

\* Checkpoint k of the run of p passed its comparison or had its baseline
\* stored in this run.
CheckpointPassed(p, k) == isSimilar[p][k] = "true" \/ saved[p][k].exists

\* C15: main's result has success true only if both screenshots were taken
\* and each checkpoint passed its comparison or had its baseline stored in
\* this run, and then it lists both screenshots; every other result (login
\* required, failed comparison, thrown error) has success false and lists
\* no screenshot.
C15_SuccessOnlyIfBothCheckpoints ==
  \A p \in Procs :
    /\ pc[p] \in Settled \cup {"finally"} => result[p] # NoResult
    /\ result[p] # NoResult =>
         /\ result[p].success =>
              /\ shots[p] = 2
              /\ \A k \in Keys : CheckpointPassed(p, k)
              /\ result[p].paths = 2
         /\ ~result[p].success =>
              /\ result[p].paths = 0
              /\ result[p] \in {LoginRequired, Failure}
         /\ (shots[p] < 2 \/ \E k \in Keys : ~CheckpointPassed(p, k)) =>
              ~result[p].success

\* A run that compared both screenshots, passed both and reported success.
C15_Witness ==
  /\ pc[1] = "done" /\ output[1].success
  /\ isSimilar[1]["initial"] = "true"
  /\ isSimilar[1]["final"] = "true"

\* C16: on every path main's finally block runs exactly once before main's
\* promise settles, and a started run always gets there; when a command of
\* the finally block fails the promise rejects and the rejection handler
\* prints the unhandled error, not the result main had computed.
C16_FinallyOnceThenSettles ==
  /\ [](\A p \in Procs :
          /\ pc[p] \in Settled => closed[p] = 1
          /\ pc[p] \notin Settled => closed[p] = 0)
  /\ [][\A p \in Procs :
          /\ (pc[p] = "rejected" /\ pc'[p] # "rejected") =>
               (pc'[p] = "done" /\ output'[p] = Unhandled /\ output'[p] # result[p])
          /\ (pc[p] = "resolved" /\ pc'[p] # "resolved") =>
               (pc'[p] = "done" /\ output'[p] = result[p])
          /\ (pc[p] = "finally" /\ pc'[p] # "finally") =>
               pc'[p] \in {"resolved", "rejected"}
       ]_vars
  /\ \A p \in Procs : (pc[p] = "open") ~> (pc[p] = "done")

\* A run that had computed its success result, failed to close the browser
\* and printed the unhandled error.
C16_Witness ==
  /\ pc[1] = "done" /\ closed[1] = 1
  /\ result[1] = Success
  /\ output[1] = Unhandled

\* C17: a run whose login check says login is required has taken no
\* screenshot, sent no Tab, text or Enter keystroke, compared nothing and
\* stored nothing, and none of its steps changes a baseline file.
C17_LoginRequiredStopsEarly ==
  /\ [](\A p \in Procs :
          result[p] = LoginRequired =>
            /\ shots[p] = 0
            /\ ~keysSent[p]
            /\ \A k \in Keys : isSimilar[p][k] = "none" /\ ~saved[p][k].exists)
  /\ [][\A p \in Procs :
          (result[p] = LoginRequired \/ result'[p] = LoginRequired) => fs' = fs
       ]_vars

\* A run stopped by the login check has ended, with a baseline of an
\* earlier run in place.
C17_Witness ==
  /\ pc[1] = "done" /\ output[1] = LoginRequired
  /\ fs["initial"].exists

====
